---- MODULE Spec2Model ----
(***************************************************************************)
(* protobuf-to-mongoose: translation of protobuf message types into        *)
(* mongoose schema descriptors (schemaFromProtoSync / createSchema /       *)
(* schemaFromMessage), and the oneof hooks it generates                    *)
(* (constructOneOfValidator, constructOneOfMiddleware).                    *)
(*                                                                         *)
(* The recursion of schemaFromMessage is an explicit call stack; every     *)
(* forEach iteration over a field is one step.  Paths and type names are   *)
(* strings, built and taken apart as the code does.                        *)
(*                                                                         *)
(* The module follows the latest of the evolutions of the translator that  *)
(* the repository holds: createSchema with wrapper, map and enum handling, *)
(* validators guarded by isInit, and a save hook that tolerates a group    *)
(* with no member in use.                                                  *)
(***************************************************************************)
EXTENDS Integers, Sequences, FiniteSets, TLC

VARIABLES pc, root, stack, heap, completedSchemas, oneOfRefs, validators,
          returns, schema, err, doc, hookOut

vars == <<pc, root, stack, heap, completedSchemas, oneOfRefs, validators,
          returns, schema, err, doc, hookOut>>

\* Depth at which the model's call stack is exhausted (the engine's
\* "Maximum call stack size exceeded"); every acyclic chain of the type
\* universe below is shorter.
MaxDepth == 4

(***************************************************************************)
(* The reflection objects handed over by ProtoBuf.loadProtoFile            *)
(***************************************************************************)

\* field.resolvedType of a field that resolves to nothing
Null == "<null>"

\* a property that is not there (val.ref never assigned, option not given)
Absent == "<absent>"

NoOptions ==
    [virtual |-> FALSE, objectId |-> Absent, oneOfReference |-> "",
     required |-> FALSE, shape |-> {}]

\* a field of scalar type t (field.type.name = t, no resolved type)
Scalar(n, t) ==
    [name |-> n, type |-> t, resolvedType |-> Null, repeated |-> FALSE,
     map |-> FALSE, required |-> FALSE, options |-> NoOptions]

\* a field whose type is the message m
Msg(n, m) == [Scalar(n, "message") EXCEPT !.resolvedType = m]

\* a field whose type is the enum e
Enum(n, e) == [Scalar(n, "enum") EXCEPT !.resolvedType = e]

Repeated(f) == [f EXCEPT !.repeated = TRUE]

MapOf(f) == [f EXCEPT !.map = TRUE]

Required(f) == [f EXCEPT !.required = TRUE]

Virtual(f) == [f EXCEPT !.options.virtual = TRUE]

ObjectIdOpt(f, r) == [f EXCEPT !.options.objectId = r]

OneOfReference(f, g) == [f EXCEPT !.options.oneOfReference = g]

Shape(f, s) == [f EXCEPT !.options.shape = s]

OneOf(n, members) == [name |-> n, fields |-> members]

Message(n, fs, os) == [name |-> n, fields |-> fs, oneofs |-> os]

\* the enum types of the file: resolvedType.children of an enum field
Enums == [Color |-> <<"RED", "GREEN">>]

\* The message types of the file, by reflection node.
Messages ==
    [Address |-> Message("Address",
        <<Scalar("city", "string"), Scalar("zip", "string")>>, <<>>),
     Contact |-> Message("Contact",
        <<Scalar("_id", "string"),
          Required(Scalar("name", "string")),
          Msg("address", "Address"),
          Repeated(Msg("previous", "Address")),
          Enum("color", "Color"),
          ObjectIdOpt(Scalar("owner", "string"), "User"),
          ObjectIdOpt(Scalar("group", "string"), ""),
          Msg("created", "Timestamp"),
          Shape(Scalar("nick", "string"), {"lowercase", "trim"})>>, <<>>),
     Tags |-> Message("Tags",
        <<MapOf(Scalar("labels", "string")),
          MapOf(Msg("places", "Address")),
          Repeated(Scalar("names", "string"))>>, <<>>),
     Method |-> Message("Method",
        <<OneOfReference(Scalar("kind", "string"), "contactMethod"),
          Scalar("email", "string"),
          Scalar("phone", "string")>>,
        <<OneOf("contactMethod", <<"email", "phone">>)>>),
     Person |-> Message("Person",
        <<OneOfReference(Scalar("which", "string"), "ident"),
          Scalar("passport", "int32"),
          Msg("card", "Address"),
          Msg("primary", "Method"),
          Msg("backup", "Method"),
          Repeated(Msg("others", "Method"))>>,
        <<OneOf("ident", <<"passport", "card">>)>>),
     Order |-> Message("Order",
        <<Scalar("_id", "string"),
          Repeated(Msg("items", "Item")),
          Msg("single", "Item")>>, <<>>),
     Item |-> Message("Item",
        <<Scalar("_id", "string"),
          Scalar("sku", "string"),
          Virtual(Scalar("total", "int32"))>>, <<>>),
     A |-> Message("A", <<Scalar("x", "string"), Msg("b", "B")>>,
        <<OneOf("pick", <<"x", "b">>)>>),
     B |-> Message("B", <<Msg("a", "A")>>, <<>>),
     Node |-> Message("Node",
        <<Scalar("label", "string"), Repeated(Msg("children", "Node"))>>,
        <<>>),
     StringValue |-> Message("StringValue",
        <<Scalar("value", "string")>>, <<>>),
     Int32Array |-> Message("Int32Array",
        <<Repeated(Scalar("value", "int32"))>>, <<>>),
     StringMap |-> Message("StringMap",
        <<MapOf(Scalar("value", "string"))>>, <<>>),
     ColorValue |-> Message("ColorValue",
        <<Enum("value", "Color")>>, <<>>),
     StringValueArray |-> Message("StringValueArray",
        <<Repeated(Msg("value", "StringValue"))>>, <<>>),
     RoadMap |-> Message("RoadMap",
        <<Scalar("title", "string")>>, <<>>),
     Wrapped |-> Message("Wrapped",
        <<Shape(Msg("nick", "StringValue"), {"lowercase"}),
          Shape(Scalar("plainNick", "string"), {"lowercase"}),
          Required(Msg("nums", "Int32Array")),
          Required(Repeated(Scalar("plainNums", "int32"))),
          Msg("dict", "StringMap"),
          MapOf(Scalar("plainDict", "string")),
          Msg("tint", "ColorValue"),
          Enum("plainTint", "Color"),
          Repeated(Msg("many", "StringValue")),
          Scalar("plainMany", "string"),
          Msg("deep", "StringValueArray"),
          Msg("home", "Address")>>, <<>>),
     Timestamp |-> Message("Timestamp",
        <<Scalar("seconds", "int64"), Scalar("nanos", "int32")>>, <<>>),
     Trip |-> Message("Trip",
        <<Scalar("name", "string"), Msg("plan", "RoadMap")>>, <<>>),
     Inner |-> Message("Inner",
        <<Scalar("s", "string"), Scalar("bad", "group")>>,
        <<OneOf("never", <<"s", "bad">>)>>),
     Outer |-> Message("Outer",
        <<Msg("addr", "Address"),
          Msg("method", "Method"),
          Msg("inner", "Inner"),
          Scalar("after", "string")>>, <<>>)]

\* the fields a wrapper field of Wrapped stands for: wrapper |-> plain twin
Twins ==
    [nick |-> "plainNick", nums |-> "plainNums", dict |-> "plainDict",
     tint |-> "plainTint", many |-> "plainMany"]

(***************************************************************************)
(* Pure helpers                                                            *)
(***************************************************************************)

\* what a switch with no matching case returns
Undefined == "undefined"

typeFromProto(type) ==
    CASE type = "bool" -> "Boolean"
      [] type \in {"string", "bytes", "int64", "sint64", "fixed64",
                   "sfixed64", "uint64", "enum", "Duration"} -> "String"
      [] type \in {"int32", "sint32", "fixed32", "sfixed32", "uint32",
                   "float", "double"} -> "Number"
      [] type \in {"Any", "Struct", "JSONObject"} -> "Object"
      [] type = "Timestamp" -> "Date"
      [] type = "ObjectId" -> "ObjectId"
      [] OTHER -> Undefined

\* s ends with suf and has at least one character before it
EndsWith(s, suf) ==
    /\ Len(s) > Len(suf)
    /\ SubSeq(s, Len(s) - Len(suf) + 1, Len(s)) = suf

\* typeName.match(/^(\w+)(Array|Value|Map)$/); type names hold only \w
wrapperMatch(typeName) ==
    \E suf \in {"Array", "Value", "Map"} : EndsWith(typeName, suf)

\* field.type.name === 'message' ? field.resolvedType.name : field.type.name
TypeNameOf(field) ==
    IF field.type = "message" THEN Messages[field.resolvedType].name
    ELSE field.type

\* TMessage.getChildren(ProtoBuf.Reflect.Message.Field)
FieldsOf(TMessage) == Messages[TMessage].fields

\* TMessage.getChildren(ProtoBuf.Reflect.Message.OneOf)
OneOfsOf(TMessage) == Messages[TMessage].oneofs

\* TMessage.getChild(name) for a field: is there one
HasField(TMessage, name) ==
    \E i \in 1..Len(FieldsOf(TMessage)) : FieldsOf(TMessage)[i].name = name

getField(TMessage, name) ==
    FieldsOf(TMessage)[CHOOSE i \in 1..Len(FieldsOf(TMessage)) :
                          FieldsOf(TMessage)[i].name = name]

\* TMessage.getChild(name) for a oneof
getOneOf(TMessage, name) ==
    OneOfsOf(TMessage)[CHOOSE i \in 1..Len(OneOfsOf(TMessage)) :
                          OneOfsOf(TMessage)[i].name = name]

\* the wrapper branch dereferences a 'value' child that is not there
WrapperBroken(field) ==
    /\ wrapperMatch(TypeNameOf(field))
    /\ \/ field.resolvedType \notin DOMAIN Messages
       \/ ~HasField(field.resolvedType, "value")

OwnShape(field) ==
    [typeName |-> TypeNameOf(field), repeated |-> field.repeated,
     resolvedType |-> field.resolvedType, isMap |-> field.map]

ValueShape(field) ==
    LET valField == getField(field.resolvedType, "value")
    IN  [typeName |-> TypeNameOf(valField), repeated |-> valField.repeated,
         resolvedType |-> valField.resolvedType, isMap |-> valField.map]

\* a plausible slip: the wrapper's own repeated flag survives the unwrapping
ShapeKeepsOuterRepeated(field) ==
    IF wrapperMatch(TypeNameOf(field))
    THEN [ValueShape(field) EXCEPT !.repeated = field.repeated]
    ELSE OwnShape(field)

\* typeName, repeated, resolvedType, isMap after the wrapper branch
EffectiveShape(field) ==
    IF wrapperMatch(TypeNameOf(field)) THEN ValueShape(field)
    ELSE OwnShape(field)

\* var type = isMap ? Object : typeFromProto(typeName)
TypeOf(field) ==
    IF EffectiveShape(field).isMap THEN "Object"
    ELSE typeFromProto(EffectiveShape(field).typeName)

\* a slip: only virtual fields are left out
SkipsOnlyVirtual(field) == field.options.virtual

\* field.options['(virtual)'] || field.name === '_id'
Skipped(field) == field.options.virtual \/ field.name = "_id"

\* the val of the else branch: enum, objectId, shape options, type, required
LeafVal(field) ==
    LET sh == EffectiveShape(field)
        isEnum == sh.typeName = "enum"
        hasObjectId == field.options.objectId # Absent
    IN  [kind |-> "leaf",
         type |-> IF hasObjectId THEN "ObjectId" ELSE TypeOf(field),
         hasEnum |-> isEnum,
         enum |-> IF isEnum THEN Enums[sh.resolvedType] ELSE <<>>,
         ref |-> IF hasObjectId /\ field.options.objectId # ""
                 THEN field.options.objectId ELSE Absent,
         flags |-> field.options.shape,
         required |-> field.required \/ field.options.required]

\* val = type: the nested object itself
RefVal(id) == [kind |-> "ref", id |-> id]

\* if (repeated) val = {type: [val], default: void 0}
Wrap(val, repeated) ==
    IF repeated THEN [kind |-> "array", of |-> val] ELSE val

\* oneof.fields.map((field) => `${prefix}${field.name}`)
PathsOf(prefix, names) == [i \in 1..Len(names) |-> prefix \o names[i]]

Hook(name, paths) == [oneofName |-> name, paths |-> paths]

\* the validators one message pushes, in the order of its oneofs
ValidatorsOf(TMessage, prefix) ==
    [i \in 1..Len(OneOfsOf(TMessage)) |->
        Hook(prefix \o OneOfsOf(TMessage)[i].name,
             PathsOf(prefix, OneOfsOf(TMessage)[i].fields))]

\* the middleware a field with (oneOfReference) pushes, if any
MiddlewareOf(TMessage, prefix, field) ==
    IF field.options.oneOfReference # ""
    THEN <<Hook(prefix \o field.name,
                PathsOf(prefix,
                    getOneOf(TMessage, field.options.oneOfReference).fields))>>
    ELSE <<>>

(***************************************************************************)
(* createSchema and the walk of schemaFromMessage                          *)
(***************************************************************************)

NoSchema == [made |-> FALSE, tree |-> 0, preSave |-> <<>>, preValidate |-> <<>>]

NoDoc == [made |-> FALSE, values |-> <<>>, init |-> {}]

NoOut == [hook |-> "", k |-> 0, nexts |-> <<>>]

Init ==
    /\ pc = "idle"
    /\ root = Null
    /\ stack = <<>>
    /\ heap = <<>>
    /\ completedSchemas = <<>>
    /\ oneOfRefs = <<>>
    /\ validators = <<>>
    /\ returns = <<>>
    /\ schema = NoSchema
    /\ err = ""
    /\ doc = NoDoc
    /\ hookOut = NoOut

Top == stack[Len(stack)]

\* the field the forEach of the running call is at
CurField == FieldsOf(Top.msg)[Top.i]

AtField == pc = "walk" /\ stack # <<>> /\ Top.i <= Len(FieldsOf(Top.msg))

\* a slip: the cache is never found to hold the message
CacheIgnored(TMessage) == FALSE

\* completedSchemas.has(TMessage)

CacheHas(TMessage) == TMessage \in DOMAIN completedSchemas

\* obj[field.name] = val, in the object of frame k; the forEach moves on
Assign(k, name, val) ==
    /\ heap' = [heap EXCEPT ![stack[k].obj] = (name :> val) @@ @]
    /\ stack' = [SubSeq(stack, 1, k) EXCEPT ![k].i = @ + 1]

\* a slip: the failure is noted and the forEach goes on to the next field
ThrowSwallowed(e) ==
    /\ err' = e
    /\ stack' = [stack EXCEPT ![Len(stack)].i = @ + 1]
    /\ UNCHANGED <<pc, root, heap, completedSchemas, oneOfRefs, validators,
                   returns, schema, doc, hookOut>>

\* an exception leaves schemaFromMessage, forEach and createSchema
Throw(e) ==
    /\ pc' = "failed"
    /\ err' = e
    /\ stack' = <<>>
    /\ UNCHANGED <<root, heap, completedSchemas, oneOfRefs, validators,
                   returns, schema, doc, hookOut>>

\* a fresh obj = {} and the frame of a call that walks TMessage
Frame(TMessage, prefix) ==
    [msg |-> TMessage, prefix |-> prefix, obj |-> Len(heap) + 1, i |-> 1]

\* createSchema(messageName): fresh cache and hook lists, then the root call
CreateSchema(messageName) ==
    /\ pc \in {"idle", "done", "failed"}
    /\ pc' = "walk"
    /\ root' = messageName
    /\ heap' = <<<<>>>>
    /\ stack' = <<[msg |-> messageName, prefix |-> "", obj |-> 1, i |-> 1]>>
    /\ completedSchemas' = <<>>
    /\ oneOfRefs' = <<>>
    /\ validators' = <<>>
    /\ returns' = <<>>
    /\ schema' = NoSchema
    /\ err' = ""
    /\ doc' = NoDoc
    /\ hookOut' = NoOut

\* if (field.options['(virtual)'] || field.name === '_id') return;
SkipField ==
    /\ AtField
    /\ Skipped(CurField)
    /\ stack' = [stack EXCEPT ![Len(stack)].i = @ + 1]
    /\ UNCHANGED <<pc, root, heap, completedSchemas, oneOfRefs, validators,
                   returns, schema, err, doc, hookOut>>

\* field.resolvedType.getChild('value') is null: valField.type throws
WrapperTypeError ==
    /\ AtField
    /\ ~Skipped(CurField)
    /\ WrapperBroken(CurField)
    /\ Throw("TypeError: Cannot read property 'type' of null")

\* a field that needs no other message: the else branch
Walkable == AtField /\ ~Skipped(CurField) /\ ~WrapperBroken(CurField)

LeafField ==
    /\ Walkable
    /\ TypeOf(CurField) # Undefined
    /\ oneOfRefs' = oneOfRefs \o MiddlewareOf(Top.msg, Top.prefix, CurField)
    /\ Assign(Len(stack), CurField.name,
              Wrap(LeafVal(CurField), EffectiveShape(CurField).repeated))
    /\ UNCHANGED <<pc, root, completedSchemas, validators, returns, schema,
                   err, doc, hookOut>>

\* throw new Error('Can\'t find the type ' + typeName)
CantFindType ==
    /\ Walkable
    /\ TypeOf(CurField) = Undefined
    /\ EffectiveShape(CurField).resolvedType = Null
    /\ Throw("Can't find the type " \o EffectiveShape(CurField).typeName)

NeedsMessage ==
    /\ Walkable
    /\ TypeOf(CurField) = Undefined
    /\ EffectiveShape(CurField).resolvedType # Null

\* the recursive call finds the message in the cache and returns it
CachedMessageField ==
    /\ NeedsMessage
    /\ CacheHas(EffectiveShape(CurField).resolvedType)
    /\ LET sh == EffectiveShape(CurField)
           id == completedSchemas[sh.resolvedType]
       IN  /\ Assign(Len(stack), CurField.name, Wrap(RefVal(id), sh.repeated))
           /\ returns' = Append(returns,
                  [msg |-> sh.resolvedType,
                   prefix |-> Top.prefix \o CurField.name \o ".",
                   val |-> id, cached |-> TRUE])
    /\ UNCHANGED <<pc, root, completedSchemas, oneOfRefs, validators, schema,
                   err, doc, hookOut>>

\* the recursive call starts a walk of the message: var obj = {}
EnterMessageField ==
    /\ NeedsMessage
    /\ ~CacheHas(EffectiveShape(CurField).resolvedType)
    /\ Len(stack) < MaxDepth
    /\ stack' = Append(stack, Frame(EffectiveShape(CurField).resolvedType,
                                    Top.prefix \o CurField.name \o "."))
    /\ heap' = Append(heap, <<>>)
    /\ UNCHANGED <<pc, root, completedSchemas, oneOfRefs, validators, returns,
                   schema, err, doc, hookOut>>

\* the recursion never reaches a cached message: the stack runs out
StackOverflow ==
    /\ NeedsMessage
    /\ ~CacheHas(EffectiveShape(CurField).resolvedType)
    /\ Len(stack) >= MaxDepth
    /\ Throw("RangeError: Maximum call stack size exceeded")

AtEnd == pc = "walk" /\ stack # <<>> /\ Top.i > Len(FieldsOf(Top.msg))

\* a slip: the walk ends without pushing the validators of its oneofs
NoValidators(TMessage, prefix) == <<>>

\* the oneofs.forEach of a finished walk
PushedValidators(TMessage, prefix) == ValidatorsOf(TMessage, prefix)

\* the end of a walk: validators pushed, completedSchemas.set, return obj
Complete ==
    /\ validators' = validators \o PushedValidators(Top.msg, Top.prefix)
    /\ completedSchemas' = (Top.msg :> Top.obj) @@ completedSchemas
    /\ returns' = Append(returns,
           [msg |-> Top.msg, prefix |-> Top.prefix, val |-> Top.obj,
            cached |-> FALSE])

\* ... to the field of the calling walk: type = schemaFromMessage(...)
ReturnToField ==
    /\ AtEnd
    /\ Len(stack) > 1
    /\ Complete
    /\ LET k == Len(stack) - 1
           field == FieldsOf(stack[k].msg)[stack[k].i]
       IN  Assign(k, field.name,
                  Wrap(RefVal(Top.obj), EffectiveShape(field).repeated))
    /\ UNCHANGED <<pc, root, oneOfRefs, schema, err, doc, hookOut>>

\* ... to createSchema: new Schema(schemaFromMessage(TObj, ''))
ReturnToCreateSchema ==
    /\ AtEnd
    /\ Len(stack) = 1
    /\ Complete
    /\ stack' = <<>>
    /\ schema' = [made |-> TRUE, tree |-> Top.obj, preSave |-> <<>>,
                  preValidate |-> <<>>]
    /\ pc' = "register"
    /\ UNCHANGED <<root, heap, oneOfRefs, err, doc, hookOut>>

\* a slip: a hook is put in front of those already registered
RegisterFirst(hooks, hook) == <<hook>> \o hooks

\* schema.pre(..., hook): hooks run in the order they were registered
Register(hooks, hook) == Append(hooks, hook)

\* for (let middleware of oneOfRefs) schema.pre('save', middleware)
RegisterPreSave ==
    /\ pc = "register"
    /\ Len(schema.preSave) < Len(oneOfRefs)
    /\ schema' = [schema EXCEPT !.preSave =
                     Register(@, oneOfRefs[Len(@) + 1])]
    /\ UNCHANGED <<pc, root, stack, heap, completedSchemas, oneOfRefs,
                   validators, returns, err, doc, hookOut>>

\* for (let validator of validators) schema.pre('validate', validator)
RegisterPreValidate ==
    /\ pc = "register"
    /\ Len(schema.preSave) = Len(oneOfRefs)
    /\ Len(schema.preValidate) < Len(validators)
    /\ schema' = [schema EXCEPT !.preValidate =
                     Register(@, validators[Len(@) + 1])]
    /\ UNCHANGED <<pc, root, stack, heap, completedSchemas, oneOfRefs,
                   validators, returns, err, doc, hookOut>>

\* return schema
ReturnSchema ==
    /\ pc = "register"
    /\ Len(schema.preSave) = Len(oneOfRefs)
    /\ Len(schema.preValidate) = Len(validators)
    /\ pc' = "done"
    /\ UNCHANGED <<root, stack, heap, completedSchemas, oneOfRefs, validators,
                   returns, schema, err, doc, hookOut>>

(***************************************************************************)
(* The generated hooks, run by mongoose on a document                      *)
(***************************************************************************)

Val(t, s) == [t |-> t, s |-> s]

VUndefined == Val("undefined", "")

\* what a path of a document may hold: nothing, null, an empty and a
\* non-empty string, an empty and a non-empty object, a non-zero number
DocValues ==
    {VUndefined, Val("null", ""), Val("string", ""), Val("string", "a@b.com"),
     Val("object", "{}"), Val("object", "{k:1}"), Val("number", "42")}


\* JavaScript's ToBoolean
Truthy(v) ==
    CASE v.t \in {"undefined", "null"} -> FALSE
      [] v.t = "string" -> v.s # ""
      [] v.t = "number" -> v.s \notin {"0", "NaN"}
      [] OTHER -> TRUE

\* lodash.isempty: true of null and undefined, of a string, array or object
\* with nothing in it, and of every number and boolean
isEmpty(v) ==
    CASE v.t \in {"undefined", "null"} -> TRUE
      [] v.t = "string" -> v.s = ""
      [] v.t = "object" -> v.s = "{}"
      [] OTHER -> TRUE

\* this.get(path)
Get(path) ==
    IF path \in DOMAIN doc.values THEN doc.values[path] ELSE VUndefined

\* this.isInit(path): the path was loaded by init() and not set since
IsInit(path) == path \in doc.init

RECURSIVE Join(_, _)
\* Array.prototype.join
Join(strs, sep) ==
    IF Len(strs) = 0 THEN ""
    ELSE IF Len(strs) = 1 THEN strs[1]
    ELSE strs[1] \o sep \o Join(Tail(strs), sep)

RECURSIVE LastSegmentFrom(_, _)
\* the part of path after its last '.', looking leftwards from position i
LastSegmentFrom(path, i) ==
    IF i = 0 THEN path
    ELSE IF SubSeq(path, i, i) = "." THEN SubSeq(path, i + 1, Len(path))
    ELSE LastSegmentFrom(path, i - 1)

\* sep = pathInUse.split('.'); sep[sep.length - 1]
LastSegment(path) == LastSegmentFrom(path, Len(path))

\* the test of the validator's filter
ValidatorCounts(path) ==
    IsInit(path) /\ Truthy(Get(path)) /\ ~isEmpty(Get(path))

\* paths.filter(...) of constructOneOfValidator
SetPaths(hook) == SelectSeq(hook.paths, ValidatorCounts)

ErrorMessage(hook) ==
    "Can only set one of the " \o hook.oneofName
        \o " paths. The following are set: " \o Join(SetPaths(hook), ", ")
        \o "."

\* the test of the middleware's find
InUse(path) == Truthy(Get(path)) /\ ~isEmpty(Get(path))

\* oneofPaths.find(...) of constructOneOfMiddleware
PathInUse(hook) ==
    LET used == SelectSeq(hook.paths, InUse)
    IN  IF Len(used) = 0 THEN Undefined ELSE used[1]

\* sep && sep[sep.length - 1]
Discriminator(hook) ==
    IF PathInUse(hook) = Undefined THEN VUndefined
    ELSE Val("string", LastSegment(PathInUse(hook)))

\* the paths a document for the k-th validator gives a value to: the group's
\* members and the paths its save hooks write
GroupPaths(k) ==
    LET members == {schema.preValidate[k].paths[i] :
                       i \in 1..Len(schema.preValidate[k].paths)}
    IN  members \cup
        {schema.preSave[j].oneofName :
            j \in {j \in 1..Len(schema.preSave) :
                     schema.preSave[j].paths = schema.preValidate[k].paths}}

RECURSIVE FirstDot(_, _)
\* the position of the first '.' of path at or after i, 0 if there is none
FirstDot(path, i) ==
    IF i > Len(path) THEN 0
    ELSE IF SubSeq(path, i, i) = "." THEN i
    ELSE FirstDot(path, i + 1)

\* the object an entry for a nested message (or an array of one) refers to
TargetOf(entry) == IF entry.kind = "array" THEN entry.of.id ELSE entry.id

RECURSIVE EntryAt(_, _)
\* schema.path(path): the descriptor entry the dotted path leads to
EntryAt(id, path) ==
    LET dot == FirstDot(path, 1)
    IN  IF dot = 0 THEN heap[id][path]
        ELSE EntryAt(TargetOf(heap[id][SubSeq(path, 1, dot - 1)]),
                     SubSeq(path, dot + 1, Len(path)))

\* what mongoose lets a path with this entry hold, cast to the entry's type
ValuesOf(entry) ==
    {v \in DocValues :
        \/ v.t \in {"undefined", "null"}
        \/ v.t = CASE entry.kind # "leaf" -> "object"
                   [] entry.type = "String" -> "string"
                   [] entry.type = "Number" -> "number"
                   [] OTHER -> "object"}

\* the document the hooks of this schema are run on is made or loaded, with
\* values on the paths of one oneof group
NewDocument(k) ==
    /\ pc = "done"
    /\ ~doc.made
    /\ k \in 1..Len(schema.preValidate)
    /\ \E values \in [GroupPaths(k) -> DocValues],
          init \in SUBSET {schema.preValidate[k].paths[i] :
                              i \in 1..Len(schema.preValidate[k].paths)} :
          /\ \A path \in GroupPaths(k) :
                values[path] \in ValuesOf(EntryAt(schema.tree, path))
          /\ doc' = [made |-> TRUE, values |-> values, init |-> init]
    /\ hookOut' = NoOut
    /\ UNCHANGED <<pc, root, stack, heap, completedSchemas, oneOfRefs,
                   validators, returns, schema, err>>

\* the k-th pre-validate hook: constructOneOfValidator's function(next)
PreValidate(k) ==
    /\ pc = "done"
    /\ doc.made
    /\ k \in 1..Len(schema.preValidate)
    /\ LET hook == schema.preValidate[k]
       IN  hookOut' =
             [hook |-> "validate", k |-> k,
              nexts |-> IF Len(SetPaths(hook)) > 1
                        THEN <<[error |-> TRUE, message |-> ErrorMessage(hook)]>>
                        ELSE <<[error |-> FALSE, message |-> ""]>>]
    /\ UNCHANGED <<pc, root, stack, heap, completedSchemas, oneOfRefs,
                   validators, returns, schema, err, doc>>

\* the k-th pre-save hook: constructOneOfMiddleware's function(next)
PreSave(k) ==
    /\ pc = "done"
    /\ doc.made
    /\ k \in 1..Len(schema.preSave)
    /\ LET hook == schema.preSave[k]
       IN  doc' = [doc EXCEPT
                     !.values = (hook.oneofName :> Discriminator(hook)) @@ @,
                     !.init = @ \ {hook.oneofName}]
    /\ hookOut' = [hook |-> "save", k |-> k,
                   nexts |-> <<[error |-> FALSE, message |-> ""]>>]
    /\ UNCHANGED <<pc, root, stack, heap, completedSchemas, oneOfRefs,
                   validators, returns, schema, err>>

Next ==
    \/ \E messageName \in DOMAIN Messages : CreateSchema(messageName)
    \/ SkipField
    \/ WrapperTypeError
    \/ LeafField
    \/ CantFindType
    \/ CachedMessageField
    \/ EnterMessageField
    \/ StackOverflow
    \/ ReturnToField
    \/ ReturnToCreateSchema
    \/ RegisterPreSave
    \/ RegisterPreValidate
    \/ ReturnSchema
    \/ \E k \in 1..Len(schema.preValidate) : NewDocument(k)
    \/ \E k \in 1..Len(schema.preValidate) : PreValidate(k)
    \/ \E k \in 1..Len(schema.preSave) : PreSave(k)

Spec == Init /\ [][Next]_vars

(***************************************************************************)
(* Properties                                                              *)
(***************************************************************************)

Finished == pc \in {"register", "done"}

\* the descriptor object the cache holds for a walked message
DescriptorOf(TMessage) == heap[completedSchemas[TMessage]]

RangeErr == "RangeError: Maximum call stack size exceeded"

IsCantFind(e) ==
    Len(e) >= 20 /\ SubSeq(e, 1, 20) = "Can't find the type "

\* C1 (as claimed): the recursion re-enters no message type whose walk is
\* still in progress, and so the call never runs out of stack.
C1_NoReentry ==
    /\ \A i, j \in 1..Len(stack) : i # j => stack[i].msg # stack[j].msg
    /\ err # RangeErr

\* empty = absent, null, empty string, empty structured value
Populated(path) ==
    /\ Get(path).t \notin {"undefined", "null"}
    /\ Get(path).s \notin {"", "{}"}

\* C2 (as claimed): the validator calls next once; with at most one populated
\* member path it passes, with more it fails with the message naming the
\* group and all and only the populated member paths, in declaration order.
C2_ValidatorContract ==
    hookOut.hook = "validate" =>
        LET hook == schema.preValidate[hookOut.k]
            populated == SelectSeq(hook.paths, Populated)
        IN  /\ Len(hookOut.nexts) = 1
            /\ IF Len(populated) <= 1
               THEN ~hookOut.nexts[1].error
               ELSE /\ hookOut.nexts[1].error
                    /\ hookOut.nexts[1].message =
                         "Can only set one of the " \o hook.oneofName
                           \o " paths. The following are set: "
                           \o Join(populated, ", ") \o "."

\* C3: every completed call on a message type after the first returns the
\* object of the first, taken from the cache; no object is made for a
\* second walk of a type.
C3_CachedReference ==
    /\ \A i \in 1..Len(returns) : \A j \in 1..(i - 1) :
          returns[j].msg = returns[i].msg =>
              /\ returns[i].val = returns[j].val
              /\ returns[i].cached
    /\ \A i \in 1..Len(returns) :
          /\ returns[i].msg \in DOMAIN completedSchemas
          /\ returns[i].val = completedSchemas[returns[i].msg]
    /\ Finished => Len(heap) = Cardinality(DOMAIN completedSchemas)

\* C3 witness: a finished schema in which one message type was returned for
\* two different prefixes.
C3_Witness ==
    /\ pc = "done"
    /\ \E i, j \in 1..Len(returns) :
          /\ i < j
          /\ returns[i].msg = returns[j].msg
          /\ returns[i].prefix # returns[j].prefix

\* C4 (as claimed): after the "Can't find the type" failure no schema exists
\* and the cache of the call holds no descriptor.
C4_NothingCached ==
    IsCantFind(err) =>
        /\ pc = "failed"
        /\ ~schema.made
        /\ DOMAIN completedSchemas = {}

\* the running walk is at a field whose type is no scalar and resolves to no
\* message
AtUnresolvable ==
    /\ Walkable
    /\ TypeOf(CurField) = Undefined
    /\ EffectiveShape(CurField).resolvedType = Null

\* C4 (amended): at an unresolvable field the only step is the "Can't find
\* the type" failure; it ends the call with no schema, stores no type whose
\* walk was in progress and pushes none of their validators; the cache keeps
\* what earlier, completed walks had stored.
C4_AbortsWholeCall ==
    [][/\ AtUnresolvable => IsCantFind(err')
       /\ IsCantFind(err') /\ ~IsCantFind(err) =>
            /\ AtUnresolvable
            /\ pc' = "failed"
            /\ stack' = <<>>
            /\ ~schema'.made
            /\ completedSchemas' = completedSchemas
            /\ validators' = validators
            /\ \A i \in 1..Len(stack) :
                  stack[i].msg \notin DOMAIN completedSchemas']_vars

\* C4 witness: the failure struck in a nested message after another message
\* had been walked and cached.
C4_Witness ==
    /\ pc = "failed"
    /\ IsCantFind(err)
    /\ DOMAIN completedSchemas # {}
    /\ root \notin DOMAIN completedSchemas

\* the validators registered for the group named g
HooksOfGroup(g) ==
    {k \in 1..Len(schema.preValidate) :
        LastSegment(schema.preValidate[k].oneofName) = g}

KeptNames(TMessage) ==
    {FieldsOf(TMessage)[i].name :
        i \in {i \in 1..Len(FieldsOf(TMessage)) :
                 ~Skipped(FieldsOf(TMessage)[i])}}

C6_WrapperTransparent ==
    (Finished /\ root = "Wrapped") =>
        LET d == DescriptorOf("Wrapped")
        IN  /\ \A w \in DOMAIN Twins : d[w] = d[Twins[w]]
            /\ d["deep"] = Wrap(RefVal(completedSchemas["StringValue"]), TRUE)
            /\ DOMAIN DescriptorOf("StringValue") = {"value"}
            /\ DescriptorOf("StringValue")["value"].type = "String"
            /\ d["home"] = RefVal(completedSchemas["Address"])
            /\ DOMAIN DescriptorOf("Address") = {"city", "zip"}

\* C6 witness: the walk of Wrapped is finished, with a scalar, an array and a
\* map unwrapped.
C6_Witness ==
    /\ pc = "done"
    /\ root = "Wrapped"
    /\ DescriptorOf("Wrapped")["nick"].type = "String"
    /\ DescriptorOf("Wrapped")["nums"].kind = "array"
    /\ DescriptorOf("Wrapped")["dict"].type = "Object"

RECURSIVE HooksInOrder(_)
\* the validators of the walks in the order the walks ended
HooksInOrder(rs) ==
    IF rs = <<>> THEN <<>>
    ELSE (IF rs[1].cached THEN <<>>
          ELSE ValidatorsOf(rs[1].msg, rs[1].prefix))
         \o HooksInOrder(Tail(rs))

\* C7: when createSchema returns, the pre-validate hooks are the validators
\* and the pre-save hooks the middleware the walk appended, each in the order
\* of the walk; while registering, each list is a prefix of its source.
C7_RegistrationOrder ==
    /\ pc = "done" =>
          /\ schema.preValidate = validators
          /\ schema.preSave = oneOfRefs
          /\ schema.preValidate = HooksInOrder(returns)
    /\ pc = "register" =>
          /\ schema.preSave = SubSeq(oneOfRefs, 1, Len(schema.preSave))
          /\ schema.preValidate =
                SubSeq(validators, 1, Len(schema.preValidate))

\* C7 witness: a schema was returned with two hooks of each kind.
C7_Witness ==
    /\ pc = "done"
    /\ Len(schema.preValidate) >= 2
    /\ Len(schema.preSave) >= 2
    /\ schema.preValidate[1] # schema.preValidate[2]

\* the fields of TMessage through which the walk calls itself
MessageFields(TMessage) ==
    {i \in 1..Len(FieldsOf(TMessage)) :
        /\ ~Skipped(FieldsOf(TMessage)[i])
        /\ TypeOf(FieldsOf(TMessage)[i]) = Undefined
        /\ EffectiveShape(FieldsOf(TMessage)[i]).resolvedType # Null}

\* C8 (as claimed): a nested message reached through a repeated field keeps
\* its _id field in its descriptor.
C8_IdKeptUnderRepeated ==
    pc = "done" =>
        \A T \in DOMAIN completedSchemas : \A i \in MessageFields(T) :
            LET sh == EffectiveShape(FieldsOf(T)[i])
            IN  (sh.repeated /\ HasField(sh.resolvedType, "_id"))
                    => "_id" \in DOMAIN DescriptorOf(sh.resolvedType)

\* C8 (amended): no descriptor object has an _id entry, whatever the level
\* and whether or not the message was reached through a repeated field, and
\* no descriptor has an entry for a virtual field.
C8_IdAndVirtualOmitted ==
    /\ \A id \in 1..Len(heap) : "_id" \notin DOMAIN heap[id]
    /\ \A T \in DOMAIN completedSchemas : \A i \in 1..Len(FieldsOf(T)) :
          FieldsOf(T)[i].options.virtual
              => FieldsOf(T)[i].name \notin DOMAIN DescriptorOf(T)

\* C8 witness: a message with an _id and a virtual field was reached through
\* a repeated field of a root that has an _id itself.
C8_Witness ==
    /\ pc = "done"
    /\ root = "Order"
    /\ DescriptorOf("Order")["items"].kind = "array"
    /\ DOMAIN DescriptorOf("Item") = {"sku"}

RECURSIVE Reach(_, _, _)
\* every way the fields lead from TMessage on: <<message, prefix, indices>>
Reach(TMessage, prefix, indices) ==
    {<<TMessage, prefix, indices>>} \cup
    UNION {Reach(EffectiveShape(FieldsOf(TMessage)[i]).resolvedType,
                 prefix \o FieldsOf(TMessage)[i].name \o ".",
                 Append(indices, i)) : i \in MessageFields(TMessage)}

RECURSIVE Before(_, _)
\* depth-first, declaration order of two index paths
Before(a, b) ==
    IF a = <<>> THEN b # <<>>
    ELSE IF b = <<>> THEN FALSE
    ELSE IF a[1] # b[1] THEN a[1] < b[1]
    ELSE Before(Tail(a), Tail(b))

\* the prefix with which the walk from the root first reaches TMessage
FirstPrefix(TMessage) ==
    LET ways == {w \in Reach(root, "", <<>>) : w[1] = TMessage}
    IN  (CHOOSE w \in ways : \A v \in ways : v = w \/ Before(w[3], v[3]))[2]

RECURSIVE OneOfCount(_)
OneOfCount(types) ==
    IF types = {} THEN 0
    ELSE LET T == CHOOSE T \in types : TRUE
         IN  Len(OneOfsOf(T)) + OneOfCount(types \ {T})

\* C9: a finished walk has appended as many validators as the distinct
\* walked message types have oneof groups, each bound to the prefix with
\* which its type was first reached.
C9_OncePerType ==
    Finished =>
        /\ Len(validators) = OneOfCount(DOMAIN completedSchemas)
        /\ \A T \in DOMAIN completedSchemas :
              \A i \in 1..Len(OneOfsOf(T)) :
                  \E k \in 1..Len(validators) :
                      validators[k] = ValidatorsOf(T, FirstPrefix(T))[i]

\* C9 witness: a message type with a oneof group was reached again, from the
\* cache, under another prefix than the one its validator is bound to.
C9_Witness ==
    /\ pc = "done"
    /\ \E i \in 1..Len(returns) :
          /\ returns[i].cached
          /\ OneOfsOf(returns[i].msg) # <<>>
          /\ returns[i].prefix # FirstPrefix(returns[i].msg)

\* C10 (as claimed): after the save hook the discriminator holds the last
\* segment of the first populated member path, or nothing when no member is
\* populated; next was called once, with no error.
C10_SyncsDiscriminator ==
    hookOut.hook = "save" =>
        LET hook == schema.preSave[hookOut.k]
            populated == SelectSeq(hook.paths, Populated)
        IN  /\ hookOut.nexts = <<[error |-> FALSE, message |-> ""]>>
            /\ Get(hook.oneofName) =
                 IF populated = <<>> THEN VUndefined
                 ELSE Val("string", LastSegment(populated[1]))

====
